---- MODULE Spec2Model ----
(***************************************************************************)
(* Model of management/replaymanager.py and management/utilites.py:        *)
(* ReplayCollection (the visited / unvisited partition of the replay files *)
(* of one directory, derived from the artifact directories on disk) and    *)
(* ReplayManager (rotation of one replay at a time into the game's replays *)
(* folder).                                                                *)
(*                                                                         *)
(* The filesystem is part of the state.  A replay file is identified by    *)
(* its file name; the names of the collection are ReplayIds, and 0 is the  *)
(* name of a replay file that the game itself left in the replays folder.  *)
(***************************************************************************)
EXTENDS Integers, Sequences, FiniteSets, TLC

\* Number of distinct replay file names of the collection directory.
NumReplays == 2

\* Longest version string given to version_to_dname.
MaxVersionLen == 5

ReplayIds == 1..NumReplays

\* Names a '.roa' file of the game's replays folder can have.
SlotNames == 0..NumReplays

Roots == {"frames", "labels"}

VARIABLES
    dirs,          \* dirs[root][id]: the directory <root>/<id> is "absent",
                   \* "empty" or "nonempty"
    replaysDir,    \* '.roa' files directly in ReplayManager.__replays_path
    collectionDir, \* '.roa' files in the collection directory
    collection,    \* ReplayManager.__collection / the ReplayCollection
                   \* object: <<>> is None, <<c>> is the object c
    last,          \* the last step: the call made and its outcome
    activated,     \* records copied into the replays folder by
                   \* load_next_replay whose capture was complete at every
                   \* later reset_unvisited and reload
    unvisitedAtReset, \* the unvisited list as reset_unvisited last
                   \* computed it
    hasConfig,     \* ReplayManager.__config was set by __init__
    backupDir,     \* '.roa' files in <replays_path>/backup
    versionDirs,   \* <<d, f>>: make_collections moved the file f into the
                   \* directory <destination_root_path>/d
    codec          \* a version string and what version_to_dname and then
                   \* dname_to_version made of it

vars == <<dirs, replaysDir, collectionDir, collection, last, activated,
          unvisitedAtReset, hasConfig, backupDir, versionDirs, codec>>

\* What the calls on a loaded collection and the environment leave alone.
aux == <<hasConfig, backupDir, versionDirs, codec>>

Range(s) == {s[i] : i \in 1..Len(s)}

----------------------------------------------------------------------------
(* utilites.py *)

\* os.listdir order of the collection directory: arbitrary but fixed.
DirOrder == [i \in 1..NumReplays |-> i]

\* listdir_replays_only(path, as_path=True) on the collection directory.
listdir_replays_only(files) == SelectSeq(DirOrder, LAMBDA f : f \in files)

\* A string is the sequence of its characters.
DigitChars == <<"0", "1", "2", "3", "4", "5", "6", "7", "8", "9">>

\* str.isdigit(): not empty and digits only.
isdigit(string) ==
    /\ string # <<>>
    /\ \A i \in 1..Len(string) : string[i] \in Range(DigitChars)

\* str.split(sep) with a separator of one character.
RECURSIVE split(_, _)
split(string, sep) ==
    IF string = <<>> THEN << <<>> >>
    ELSE LET rest == split(Tail(string), sep) IN
         IF Head(string) = sep
         THEN << <<>> >> \o rest
         ELSE << <<Head(string)>> \o Head(rest) >> \o Tail(rest)

\* sep.join(parts)
RECURSIVE join(_, _)
join(sep, parts) ==
    IF parts = <<>> THEN <<>>
    ELSE IF Len(parts) = 1 THEN parts[1]
    ELSE parts[1] \o <<sep>> \o join(sep, Tail(parts))

DigitValue(char) == CHOOSE d \in 0..9 : DigitChars[d + 1] = char

\* int(string) of a string of digits.
RECURSIVE int(_)
int(string) ==
    IF string = <<>> THEN 0
    ELSE 10 * int(SubSeq(string, 1, Len(string) - 1))
             + DigitValue(string[Len(string)])

\* str(n) of a natural number.
RECURSIVE str(_)
str(n) ==
    IF n < 10 THEN <<DigitChars[n + 1]>>
    ELSE str(n \div 10) \o <<DigitChars[(n % 10) + 1]>>

Map(f(_), seq) == [i \in 1..Len(seq) |-> f(seq[i])]

\* version_to_dname: 'Convert x.x.x to xx_xx_xx'
version_to_dname(string) ==
    LET pad(char) == IF Len(char) > 1 THEN char ELSE <<"0">> \o char IN
    join("_", Map(pad, SelectSeq(split(string, "."), isdigit)))

dname_to_version_no_int(string) ==
    join(".", SelectSeq(split(string, "_"), isdigit))

\* dname_to_version: 'Convert xx_xx_xx to x.x.x'
dname_to_version(string) ==
    LET unpad(char) == str(int(char)) IN
    join(".", Map(unpad, SelectSeq(split(string, "_"), isdigit)))

----------------------------------------------------------------------------
(* class ReplayCollection *)

isdir(fs, root, id) == fs[root][id] # "absent"

\* os.listdir(path) of an existing directory is a non-empty list.
listdir_nonempty(fs, root, id) == fs[root][id] = "nonempty"

is_replay_collected_isdir_only(fs, self, replay) ==
    IF ~isdir(fs, self.frames_root_path, replay) THEN FALSE
    ELSE IF ~isdir(fs, self.labels_root_path, replay) THEN FALSE
    ELSE TRUE

is_replay_collected(fs, self, replay) ==
    IF ~isdir(fs, self.frames_root_path, replay) THEN FALSE
    ELSE IF ~isdir(fs, self.labels_root_path, replay) THEN FALSE
    ELSE IF ~listdir_nonempty(fs, self.frames_root_path, replay) THEN FALSE
    ELSE IF ~listdir_nonempty(fs, self.labels_root_path, replay) THEN FALSE
    ELSE TRUE

reset_unvisited_all(fs, self) ==
    [self EXCEPT !.replays_unvisited = self.replays]

reset_unvisited_append(fs, self) ==
    [self EXCEPT !.replays_unvisited =
        self.replays_unvisited \o
        SelectSeq(self.replays,
                  LAMBDA replay : ~is_replay_collected(fs, self, replay))]

\* reset_unvisited: the object after the call; the call returns the length
\* of its replays_unvisited.
reset_unvisited(fs, self) ==
    [self EXCEPT !.replays_unvisited =
        SelectSeq(self.replays,
                  LAMBDA replay : ~is_replay_collected(fs, self, replay))]

\* ReplayCollection(collection_path, frames_root_path, labels_root_path)
ReplayCollection(fs, files, frames_root_path, labels_root_path) ==
    reset_unvisited(fs,
        [replays           |-> listdir_replays_only(files),
         replays_unvisited |-> <<>>,
         frames_root_path  |-> frames_root_path,
         labels_root_path  |-> labels_root_path])

count(self) == Len(self.replays)

count_unvisited(self) == Len(self.replays_unvisited)

pop_unvisited_no_guard(self) ==
    IF self.replays_unvisited = <<>>
    THEN [self |-> self, kind |-> "IndexError", val |-> <<>>]
    ELSE [self |-> [self EXCEPT !.replays_unvisited = Tail(@)],
          kind |-> "return",
          val  |-> <<Head(self.replays_unvisited)>>]

pop_unvisited_lifo(self) ==
    IF self.replays_unvisited = <<>>
    THEN [self |-> self, kind |-> "return", val |-> <<>>]
    ELSE [self |-> [self EXCEPT !.replays_unvisited =
                        SubSeq(@, 1, Len(@) - 1)],
          kind |-> "return",
          val  |-> <<self.replays_unvisited[Len(self.replays_unvisited)]>>]

pop_unvisited_peek(self) ==
    IF self.replays_unvisited = <<>>
    THEN [self |-> self, kind |-> "return", val |-> <<>>]
    ELSE [self |-> self,
          kind |-> "return",
          val  |-> <<Head(self.replays_unvisited)>>]

\* pop_unvisited: the object after the call and what the call returns
\* (val <<>> is None, val <<r>> is the replay r).
pop_unvisited(self) ==
    IF self.replays_unvisited = <<>>
    THEN [self |-> self, kind |-> "return", val |-> <<>>]
    ELSE [self |-> [self EXCEPT !.replays_unvisited = Tail(@)],
          kind |-> "return",
          val  |-> <<Head(self.replays_unvisited)>>]

----------------------------------------------------------------------------
(* The last step *)

\* op: the call; skip: its skip_deletions argument; kind: "return" or the
\* exception raised; val: the value returned (<<>> is None); copied: the
\* replay file the call copied into the replays folder, if any.
Call(op, skip, kind, val, copied) ==
    [op |-> op, skip |-> skip, kind |-> kind, val |-> val, copied |-> copied]

External == Call("external", FALSE, "return", <<>>, <<>>)

\* A record stays in activated while both of its artifact directories are
\* non-empty each time the unvisited list is recomputed.
CaptureComplete(fs, r) ==
    fs["frames"][r] = "nonempty" /\ fs["labels"][r] = "nonempty"

StillCaptured(fs, set) == {r \in set : CaptureComplete(fs, r)}

----------------------------------------------------------------------------
(* Calls on a ReplayCollection *)

\* ReplayCollection(path, frames_root, labels_root), constructed directly.
NewReplayCollection ==
    /\ collection' =
         <<ReplayCollection(dirs, collectionDir, "frames", "labels")>>
    /\ unvisitedAtReset' = collection'[1].replays_unvisited
    /\ last' = Call("ReplayCollection", FALSE, "return", <<>>, <<>>)
    /\ activated' = StillCaptured(dirs, activated)
    /\ UNCHANGED <<dirs, replaysDir, collectionDir, aux>>

ResetUnvisited ==
    /\ collection # <<>>
    /\ LET self == reset_unvisited(dirs, collection[1]) IN
         /\ collection' = <<self>>
         /\ unvisitedAtReset' = self.replays_unvisited
         /\ last' = Call("reset_unvisited", FALSE, "return",
                         <<Len(self.replays_unvisited)>>, <<>>)
    /\ activated' = StillCaptured(dirs, activated)
    /\ UNCHANGED <<dirs, replaysDir, collectionDir, aux>>

PopUnvisitedFresh ==
    /\ collection # <<>>
    /\ LET res == pop_unvisited(reset_unvisited(dirs, collection[1])) IN
         /\ collection' = <<res.self>>
         /\ last' = Call("pop_unvisited", FALSE, res.kind, res.val, <<>>)
    /\ UNCHANGED <<dirs, replaysDir, collectionDir, activated,
                   unvisitedAtReset, aux>>

PopUnvisited ==
    /\ collection # <<>>
    /\ LET res == pop_unvisited(collection[1]) IN
         /\ collection' = <<res.self>>
         /\ last' = Call("pop_unvisited", FALSE, res.kind, res.val, <<>>)
    /\ UNCHANGED <<dirs, replaysDir, collectionDir, activated,
                   unvisitedAtReset, aux>>

----------------------------------------------------------------------------
(* class ReplayManager *)

flush_replays_keep(files) == files

\* __flush_replays__: os.remove of every '.roa' file of the replays folder;
\* the files left.
flush_replays(files) == files \ {f \in SlotNames : f \in files}

move_replay(source, files, name) ==
    [source |-> source \ {name}, files |-> files \cup {name}]

\* shutil.copy(replay.path, replays_path): the files of the collection
\* directory and of the replays folder afterwards.
copy_replay(source, files, name) ==
    [source |-> source, files |-> files \cup {name}]

\* What load_collection can be given: no path, the path of the collection
\* directory, a path that is no directory.
CollectionPaths == {"none", "collection", "missing"}

load_collection_clears(fs, files, self, collection_path) ==
    IF collection_path = "none" /\ ~self.has_config
    THEN [collection |-> <<>>, kind |-> "AttributeError"]
    ELSE IF collection_path = "missing"
    THEN [collection |-> <<>>, kind |-> "FileNotFoundError"]
    ELSE [collection |-> <<ReplayCollection(fs, files, "frames", "frames")>>,
          kind |-> "return"]

\* load_collection(collection_path): the __collection attribute after the
\* call and how the call ended.  Without a path the call reads
\* self.__config, which __init__ sets only when it was given no
\* replays_path; the path derived from the configuration is the one of the
\* collection directory.  os.listdir of a path that is no directory raises
\* inside ReplayCollection.__init__, before the attribute is assigned.
load_collection(fs, files, self, collection_path) ==
    IF collection_path = "none" /\ ~self.has_config
    THEN [collection |-> self.collection, kind |-> "AttributeError"]
    ELSE IF collection_path = "missing"
    THEN [collection |-> self.collection, kind |-> "FileNotFoundError"]
    ELSE [collection |-> <<ReplayCollection(fs, files, "frames", "frames")>>,
          kind |-> "return"]

LoadCollection ==
    \E collection_path \in CollectionPaths :
        LET res == load_collection(dirs, collectionDir,
                       [collection |-> collection, has_config |-> hasConfig],
                       collection_path)
        IN
        /\ collection' = res.collection
        /\ last' = [op |-> "load_collection", skip |-> FALSE,
                    kind |-> res.kind, val |-> <<>>, copied |-> <<>>,
                    path |-> collection_path]
        /\ IF res.kind = "return"
           THEN /\ unvisitedAtReset' = collection'[1].replays_unvisited
                /\ activated' = StillCaptured(dirs, activated)
           ELSE UNCHANGED <<unvisitedAtReset, activated>>
        /\ UNCHANGED <<dirs, replaysDir, collectionDir, aux>>

\* load_next_replay(skip_deletions).  The call ends at the first statement
\* that raises: pop_unvisited on None, replay.path on None, shutil.copy of
\* a missing file, and replay.set_destination_paths, which ReplayFile does
\* not define.
LoadNextReplay ==
    \E skip_deletions \in BOOLEAN :
        LET flushed == flush_replays(replaysDir) IN
        IF collection = <<>>
        THEN /\ replaysDir' = flushed
             /\ last' = Call("load_next_replay", skip_deletions,
                             "AttributeError", <<>>, <<>>)
             /\ UNCHANGED <<dirs, collectionDir, collection, activated,
                            unvisitedAtReset, aux>>
        ELSE LET res == pop_unvisited(collection[1]) IN
             /\ collection' = <<res.self>>
             /\ IF res.val = <<>>
                THEN /\ replaysDir' = flushed
                     /\ last' = Call("load_next_replay", skip_deletions,
                                     "AttributeError", <<>>, <<>>)
                     /\ UNCHANGED <<collectionDir, activated>>
                ELSE IF res.val[1] \notin collectionDir
                THEN /\ replaysDir' = flushed
                     /\ last' = Call("load_next_replay", skip_deletions,
                                     "FileNotFoundError", <<>>, <<>>)
                     /\ UNCHANGED <<collectionDir, activated>>
                ELSE LET copy == copy_replay(collectionDir, flushed,
                                             res.val[1])
                     IN
                     /\ replaysDir' = copy.files
                     /\ collectionDir' = copy.source
                     /\ last' = Call("load_next_replay", skip_deletions,
                                     "AttributeError", <<>>, res.val)
                     /\ activated' = activated \cup {res.val[1]}
             /\ UNCHANGED <<dirs, unvisitedAtReset, aux>>

----------------------------------------------------------------------------
(* The environment: the capture process, the game, the user *)

\* A frames/<id> or labels/<id> directory is created.
MakeArtifactDir ==
    \E root \in Roots, id \in ReplayIds :
        /\ dirs[root][id] = "absent"
        /\ dirs' = [dirs EXCEPT ![root][id] = "empty"]
        /\ last' = External
        /\ UNCHANGED <<replaysDir, collectionDir, collection, activated,
                     unvisitedAtReset, aux>>

\* The capture process writes a frame or a label file.
WriteArtifact ==
    \E root \in Roots, id \in ReplayIds :
        /\ dirs[root][id] = "empty"
        /\ dirs' = [dirs EXCEPT ![root][id] = "nonempty"]
        /\ last' = External
        /\ UNCHANGED <<replaysDir, collectionDir, collection, activated,
                     unvisitedAtReset, aux>>

\* The files of an artifact directory are deleted.
ClearArtifactDir ==
    \E root \in Roots, id \in ReplayIds :
        /\ dirs[root][id] = "nonempty"
        /\ dirs' = [dirs EXCEPT ![root][id] = "empty"]
        /\ last' = External
        /\ UNCHANGED <<replaysDir, collectionDir, collection, activated,
                     unvisitedAtReset, aux>>

\* An empty artifact directory is removed.
RemoveArtifactDir ==
    \E root \in Roots, id \in ReplayIds :
        /\ dirs[root][id] = "empty"
        /\ dirs' = [dirs EXCEPT ![root][id] = "absent"]
        /\ last' = External
        /\ UNCHANGED <<replaysDir, collectionDir, collection, activated,
                     unvisitedAtReset, aux>>

\* The game or the user puts a replay file into the replays folder.
WriteReplayFile ==
    \E f \in SlotNames :
        /\ f \notin replaysDir
        /\ replaysDir' = replaysDir \cup {f}
        /\ last' = External
        /\ UNCHANGED <<dirs, collectionDir, collection, activated,
                     unvisitedAtReset, aux>>

\* A replay file is deleted from the collection directory.
RemoveSourceFile ==
    \E f \in collectionDir :
        /\ collectionDir' = collectionDir \ {f}
        /\ last' = External
        /\ UNCHANGED <<dirs, replaysDir, collection, activated,
                     unvisitedAtReset, aux>>

\* A replay file is put into the collection directory.
AddSourceFile ==
    \E f \in ReplayIds \ collectionDir :
        /\ collectionDir' = collectionDir \cup {f}
        /\ last' = External
        /\ UNCHANGED <<dirs, replaysDir, collection, activated,
                     unvisitedAtReset, aux>>

InitFiles ==
    /\ dirs = [root \in Roots |-> [id \in ReplayIds |-> "absent"]]
    /\ replaysDir = {}
    /\ collectionDir = ReplayIds
    /\ collection = <<>>
    /\ last = Call("init", FALSE, "return", <<>>, <<>>)
    /\ activated = {}
    /\ unvisitedAtReset = <<>>
    /\ hasConfig = TRUE
    /\ backupDir = {}
    /\ versionDirs = {}

Init ==
    /\ InitFiles
    /\ codec = [stage |-> "idle", string |-> <<>>, dname |-> <<>>,
                version |-> <<>>]

NextCollection ==
    \/ NewReplayCollection
    \/ ResetUnvisited
    \/ PopUnvisited
    \/ MakeArtifactDir
    \/ WriteArtifact
    \/ ClearArtifactDir
    \/ RemoveArtifactDir
    \/ RemoveSourceFile
    \/ AddSourceFile

SpecCollection == Init /\ [][NextCollection]_vars

Next ==
    \/ LoadCollection
    \/ LoadNextReplay
    \/ ResetUnvisited
    \/ MakeArtifactDir
    \/ WriteArtifact
    \/ ClearArtifactDir
    \/ RemoveArtifactDir
    \/ WriteReplayFile
    \/ RemoveSourceFile
    \/ AddSourceFile

Spec == Init /\ [][Next]_vars

\* load_next_replay, capture, reset_unvisited and reload over a collection
\* directory whose files stay in place.
NextRotation ==
    \/ LoadCollection
    \/ LoadNextReplay
    \/ ResetUnvisited
    \/ MakeArtifactDir
    \/ WriteArtifact
    \/ ClearArtifactDir
    \/ RemoveArtifactDir
    \/ WriteReplayFile

SpecRotation == Init /\ [][NextRotation]_vars

----------------------------------------------------------------------------
(* Construction of a ReplayManager and make_collections *)

\* The first line of the replay file f: one character, the three numbers
\* of the game version with two digits each, more data.
HeaderLine(f) ==
    <<"0", "0", "1", "0", DigitChars[(f % 10) + 1], "0", "0", "7", "\n">>

\* ReplayFile.get_version(simple)
get_version(line, simple) ==
    LET version == join("_", <<SubSeq(line, 2, 3), SubSeq(line, 4, 5),
                               SubSeq(line, 6, 7)>>)
    IN IF simple THEN dname_to_version(version) ELSE line

\* __backup_replays__: how it ends and the files of the replays folder and
\* of its backup folder afterwards.  os.rename(replay_path, backup_path) is
\* given the backup directory itself as the new path and raises for the
\* first file.
backup_replays(files, backup) ==
    IF files = {}
    THEN [kind |-> "return", files |-> files, backup |-> backup]
    ELSE [kind |-> "OSError", files |-> files, backup |-> backup]

\* ReplayManager(replays_path, skip_backups=...).  When __init__ raises
\* there is no new object and the manager in use stays as it is.
NewReplayManager ==
    \E replays_path_given \in BOOLEAN, skip_backups \in BOOLEAN :
        LET res == IF skip_backups
                   THEN [kind |-> "return", files |-> replaysDir,
                         backup |-> backupDir]
                   ELSE backup_replays(replaysDir, backupDir)
        IN
        /\ replaysDir' = res.files
        /\ backupDir' = res.backup
        /\ last' = Call("ReplayManager", skip_backups, res.kind, <<>>, <<>>)
        /\ IF res.kind = "return"
           THEN /\ hasConfig' = ~replays_path_given
                /\ collection' = <<>>
                /\ unvisitedAtReset' = <<>>
                /\ activated' = {}
           ELSE UNCHANGED <<hasConfig, collection, unvisitedAtReset,
                            activated>>
        /\ UNCHANGED <<dirs, collectionDir, versionDirs, codec>>

\* make_collections: every replay file of the replays folder is renamed
\* into <destination_root_path>/<get_version()>/.
MakeCollections ==
    /\ versionDirs' = versionDirs \cup
           {<<get_version(HeaderLine(f), FALSE), f>> : f \in replaysDir}
    /\ replaysDir' = {}
    /\ last' = Call("make_collections", FALSE, "return", <<>>, <<>>)
    /\ UNCHANGED <<dirs, collectionDir, collection, activated,
                   unvisitedAtReset, hasConfig, backupDir, codec>>

NextSetup ==
    \/ NewReplayManager
    \/ MakeCollections
    \/ LoadCollection
    \/ WriteReplayFile

SpecSetup == Init /\ [][NextSetup]_vars

----------------------------------------------------------------------------
(* version_to_dname and dname_to_version on their own *)

\* Characters of the version strings tried.
VersionChars == {"0", "1", "2", "3", "."}

VersionStrings ==
    UNION {[1..n -> VersionChars] : n \in 0..MaxVersionLen}

InitCodec ==
    /\ InitFiles
    /\ \E string \in VersionStrings :
           codec = [stage |-> "string", string |-> string, dname |-> <<>>,
                    version |-> <<>>]

VersionToDname ==
    /\ codec.stage = "string"
    /\ codec' = [codec EXCEPT !.stage = "dname",
                              !.dname = version_to_dname(codec.string)]
    /\ UNCHANGED <<dirs, replaysDir, collectionDir, collection, last,
                   activated, unvisitedAtReset, hasConfig, backupDir,
                   versionDirs>>

DnameToVersion ==
    /\ codec.stage = "dname"
    /\ codec' = [codec EXCEPT !.stage = "version",
                              !.version = dname_to_version(codec.dname)]
    /\ UNCHANGED <<dirs, replaysDir, collectionDir, collection, last,
                   activated, unvisitedAtReset, hasConfig, backupDir,
                   versionDirs>>

NextCodec ==
    \/ VersionToDname
    \/ DnameToVersion

SpecCodec == InitCodec /\ [][NextCodec]_vars

----------------------------------------------------------------------------
(* Properties *)

Loaded == collection # <<>>

Replays == collection[1].replays

Unvisited == collection[1].replays_unvisited

\* Both artifact directories of r, under the roots of the collection c,
\* exist and hold at least one entry.
BothNonEmpty(fs, c, r) ==
    /\ fs[c.frames_root_path][r] \notin {"absent", "empty"}
    /\ fs[c.labels_root_path][r] \notin {"absent", "empty"}

RECURSIVE IsSubsequence(_, _)
IsSubsequence(s, t) ==
    IF s = <<>> THEN TRUE
    ELSE IF t = <<>> THEN FALSE
    ELSE IF Head(s) = Head(t) THEN IsSubsequence(Tail(s), Tail(t))
    ELSE IsSubsequence(s, Tail(t))

NoRepeat(s) == \A i, j \in 1..Len(s) : i # j => s[i] # s[j]

\* C1: is_replay_collected(record) is true exactly when both
\* framesRoot/record.id and labelsRoot/record.id exist as directories and
\* each holds at least one entry; it is false when either is missing or
\* empty.
C1_CollectedIffBothNonEmpty ==
    Loaded =>
        \A r \in Range(Replays) :
            is_replay_collected(dirs, collection[1], r)
                <=> BothNonEmpty(dirs, collection[1], r)

\* C1 witness: a record whose frames directory holds files while its labels
\* directory exists but is empty, and a record with both non-empty.
C1_Witness ==
    /\ Loaded
    /\ collection[1].labels_root_path = "labels"
    /\ \E r \in Range(Replays) :
           dirs["frames"][r] = "nonempty" /\ dirs["labels"][r] = "empty"
    /\ \E r \in Range(Replays) :
           dirs["frames"][r] = "nonempty" /\ dirs["labels"][r] = "nonempty"

\* C2: in a collection loaded through load_collection, a record whose
\* frames directory is non-empty but whose labels directory is empty or
\* missing is still unvisited after reset_unvisited.
C2_LabelsNeededForVisited ==
    (Loaded /\ last.op \in {"load_collection", "reset_unvisited"}) =>
        \A r \in Range(Replays) :
            (dirs["frames"][r] = "nonempty" /\ dirs["labels"][r] # "nonempty")
                => r \in Range(Unvisited)

\* C3: the unvisited list is always a subsequence of the full list, in the
\* same order and without repetition, and right after construction and
\* after every reset_unvisited it holds exactly the records that are not
\* collected on disk at that moment.
C3_UnvisitedSubsequence ==
    Loaded =>
        /\ IsSubsequence(Unvisited, Replays)
        /\ NoRepeat(Unvisited)
        /\ last.op \in {"ReplayCollection", "reset_unvisited"} =>
               Unvisited = SelectSeq(Replays,
                   LAMBDA r : ~BothNonEmpty(dirs, collection[1], r))

\* C3 witness: after pops and artifact writes, a reset_unvisited leaves a
\* proper, non-empty part of the records unvisited.
C3_Witness ==
    /\ Loaded
    /\ last.op = "reset_unvisited"
    /\ Len(Replays) > Len(Unvisited)
    /\ Len(Unvisited) > 0

\* C4: a pop_unvisited on a non-empty unvisited list lowers count_unvisited
\* by exactly 1 and leaves count unchanged; the record returned is no
\* longer in the unvisited list, and no record enters that list before the
\* next reset_unvisited or construction, so no later pop returns it.
C4_PopRemovesOne ==
    [][ /\ (Loaded /\ last'.op = "pop_unvisited" /\ Unvisited # <<>>) =>
              /\ count_unvisited(collection'[1]) =
                     count_unvisited(collection[1]) - 1
              /\ count(collection'[1]) = count(collection[1])
              /\ last'.kind = "return"
              /\ last'.val = <<Head(Unvisited)>>
              /\ Head(Unvisited) \notin Range(collection'[1].replays_unvisited)
        /\ (Loaded /\ last'.op \notin {"ReplayCollection", "reset_unvisited"})
              => Range(collection'[1].replays_unvisited) \subseteq
                     Range(Unvisited)
      ]_vars

\* C4 witness: a pop has returned a record and another record is still
\* unvisited.
C4_Witness ==
    /\ Loaded
    /\ last.op = "pop_unvisited"
    /\ last.val # <<>>
    /\ Unvisited # <<>>

\* C5: when the capture of every activated record has left both of its
\* artifact directories non-empty at each reset_unvisited and reload since,
\* load_next_replay does not copy that record into the replays folder a
\* second time.
C5_ActivatedOnce ==
    [][ (last'.op = "load_next_replay" /\ last'.copied # <<>>) =>
            last'.copied[1] \notin activated ]_vars

\* C5 witness: a record was activated and captured, the unvisited list was
\* recomputed, and load_next_replay has then activated another record.
C5_Witness ==
    /\ last.op = "load_next_replay"
    /\ last.copied # <<>>
    /\ \E r \in activated :
           /\ r # last.copied[1]
           /\ CaptureComplete(dirs, r)
           /\ Loaded
           /\ r \notin Range(Unvisited)

\* C6: after load_next_replay with skip_deletions false, whether it
\* succeeded or failed, the replays folder holds at most one replay file.
C6_AtMostOneInSlot ==
    (last.op = "load_next_replay" /\ ~last.skip) =>
        Cardinality(replaysDir) <= 1

\* C6 witness: load_next_replay ran and left exactly one replay file.
C6_Witness ==
    /\ last.op = "load_next_replay"
    /\ ~last.skip
    /\ Cardinality(replaysDir) = 1

\* C7: with at least one unvisited record, load_next_replay completes
\* without error, returns the first unvisited record, and both
\* framesRoot/id and labelsRoot/id exist afterwards.
C7_LoadNextReturnsRecord ==
    [][ (Loaded /\ Unvisited # <<>> /\ last'.op = "load_next_replay") =>
            /\ last'.kind = "return"
            /\ last'.val = <<Head(Unvisited)>>
            /\ dirs'["frames"][Head(Unvisited)] # "absent"
            /\ dirs'["labels"][Head(Unvisited)] # "absent" ]_vars

\* C8: with an empty unvisited list, load_next_replay fails with the
\* NoUnvisitedReplays outcome and copies no file into the replays folder.
C8_NoUnvisitedOutcome ==
    [][ (Loaded /\ Unvisited = <<>> /\ last'.op = "load_next_replay") =>
            /\ last'.kind = "NoUnvisitedReplays"
            /\ last'.copied = <<>>
            /\ replaysDir' \subseteq replaysDir ]_vars

\* C9: load_next_replay with skip_deletions true deletes no file of the
\* replays folder.
C9_SkipDeletionsKeepsFiles ==
    [][ (last'.op = "load_next_replay" /\ last'.skip) =>
            replaysDir \subseteq replaysDir' ]_vars

\* C10: pop_unvisited on an empty unvisited list returns None without
\* raising and leaves the unvisited list and the full list unchanged.
C10_PopEmptyReturnsNone ==
    [][ (Loaded /\ Unvisited = <<>> /\ last'.op = "pop_unvisited") =>
            /\ last'.kind = "return"
            /\ last'.val = <<>>
            /\ collection' = collection ]_vars

\* C10 witness: a pop on an empty unvisited list of a collection that has
\* records.
C10_Witness ==
    /\ Loaded
    /\ last.op = "pop_unvisited"
    /\ last.val = <<>>
    /\ Unvisited = <<>>
    /\ Replays # <<>>

\* Every component of the dotted string is a decimal number of 1 or 2
\* digits.
OneOrTwoDigits(string) ==
    \A i \in 1..Len(split(string, ".")) :
        LET c == split(string, ".")[i] IN
        isdigit(c) /\ Len(c) <= 2

\* No component of two digits starts with 0.
NoLeadingZero(string) ==
    \A i \in 1..Len(split(string, ".")) :
        LET c == split(string, ".")[i] IN
        Len(c) = 2 => c[1] # "0"

\* C13 as stated: for every dotted version string v whose components are
\* decimal numbers of 1 or 2 digits, dname_to_version(version_to_dname(v))
\* is v.
C13_RoundTripAnyTwoDigits ==
    (codec.stage = "version" /\ OneOrTwoDigits(codec.string)) =>
        codec.version = codec.string

\* C13 amended: for every dotted version string v whose components are
\* decimal numbers of 1 or 2 digits, none of 2 digits starting with 0,
\* dname_to_version(version_to_dname(v)) is v; version_to_dname("1.2.3")
\* is "01_02_03" and dname_to_version("01_02_03") is "1.2.3".
C13_RoundTripCanonical ==
    /\ ( /\ codec.stage = "version"
         /\ OneOrTwoDigits(codec.string)
         /\ NoLeadingZero(codec.string) ) =>
           codec.version = codec.string
    /\ ( /\ codec.stage \in {"dname", "version"}
         /\ codec.string = <<"1", ".", "2", ".", "3">> ) =>
           codec.dname = <<"0", "1", "_", "0", "2", "_", "0", "3">>
    /\ ( /\ codec.stage = "version"
         /\ codec.dname = <<"0", "1", "_", "0", "2", "_", "0", "3">> ) =>
           codec.version = <<"1", ".", "2", ".", "3">>

\* C13 witness: "1.2.3" has gone through both conversions.
C13_Witness ==
    /\ codec.stage = "version"
    /\ codec.string = <<"1", ".", "2", ".", "3">>
    /\ codec.version = codec.string

\* The version token of a header line: its characters [1:3), [3:5), [5:7)
\* joined with '_'.
VersionToken(line) ==
    <<line[2], line[3], "_", line[4], line[5], "_", line[6], line[7]>>

\* C11: make_collections moves every replay file of the replays folder
\* into destinationRoot/<token>, <token> being the version token of the
\* file's first line, under the file's own name; afterwards the replays
\* folder holds no replay file.
C11_MovedToVersionToken ==
    [][ last'.op = "make_collections" =>
            /\ replaysDir' = {}
            /\ \A f \in replaysDir :
                   <<VersionToken(HeaderLine(f)), f>> \in versionDirs'
      ]_vars

\* C12: the backup run at construction (unless skip_backups) completes
\* without error for any number of replay files, zero included; afterwards
\* every one of them is in replaysPath/backup under its own name and none
\* is left in the replays folder.
C12_BackupMovesAll ==
    [][ (last'.op = "ReplayManager" /\ ~last'.skip) =>
            /\ last'.kind = "return"
            /\ replaysDir' = {}
            /\ replaysDir \subseteq backupDir'
      ]_vars

\* C18: on any constructed ReplayManager, replays_path given or taken from
\* the configuration, load_collection without a path loads the collection
\* of the version directory and returns without error.
C18_DefaultPathLoads ==
    (last.op = "load_collection" /\ last.path = "none") =>
        /\ last.kind = "return"
        /\ Loaded
        /\ Replays = listdir_replays_only(collectionDir)

\* C20: a load_collection that fails because its path is no directory
\* leaves the loaded collection (or None) as it was, its unvisited list
\* included, and creates, moves and deletes no file.
C20_FailedLoadKeepsState ==
    [][ (last'.op = "load_collection" /\ last'.path = "missing") =>
            /\ last'.kind # "return"
            /\ collection' = collection
            /\ dirs' = dirs
            /\ replaysDir' = replaysDir
            /\ collectionDir' = collectionDir
            /\ backupDir' = backupDir
            /\ versionDirs' = versionDirs
      ]_vars

\* C20 witness: the load failed while a collection with a partly popped
\* unvisited list was loaded.
C20_Witness ==
    /\ last.op = "load_collection"
    /\ last.path = "missing"
    /\ last.kind = "FileNotFoundError"
    /\ Loaded
    /\ Unvisited # <<>>
    /\ Len(Unvisited) < Len(Replays)

\* C14: between two reset_unvisited calls, the k-th pop_unvisited returns
\* the k-th of the records that were unvisited at the earlier reset, which
\* are in directory-listing order and each there once; the records not yet
\* returned are the rest of that list, and once it is used up the pop
\* returns None.
C14_PopsInListingOrder ==
    [][ /\ (Loaded /\ last'.op = "pop_unvisited") =>
              LET k == Len(unvisitedAtReset) - Len(Unvisited) + 1 IN
              /\ last'.kind = "return"
              /\ last'.val = IF k <= Len(unvisitedAtReset)
                             THEN <<unvisitedAtReset[k]>>
                             ELSE <<>>
        /\ collection' # <<>> =>
              /\ IsSubsequence(unvisitedAtReset', collection'[1].replays)
              /\ NoRepeat(unvisitedAtReset')
              /\ Len(collection'[1].replays_unvisited)
                     <= Len(unvisitedAtReset')
              /\ collection'[1].replays_unvisited =
                     SubSeq(unvisitedAtReset',
                            Len(unvisitedAtReset')
                              - Len(collection'[1].replays_unvisited) + 1,
                            Len(unvisitedAtReset'))
        /\ (last'.op \in {"ReplayCollection", "reset_unvisited"}) =>
              unvisitedAtReset' =
                  SelectSeq(collection'[1].replays,
                      LAMBDA r : ~BothNonEmpty(dirs', collection'[1], r))
      ]_vars

\* C14 witness: every record was unvisited at the last reset, all of them
\* have been popped and the last pop returned None.
C14_Witness ==
    /\ Loaded
    /\ last.op = "pop_unvisited"
    /\ last.val = <<>>
    /\ Len(unvisitedAtReset) = NumReplays
    /\ Unvisited = <<>>

\* C15: a record that is not in the unvisited list enters it only by a
\* reset_unvisited or a reload, and only if it is not collected at that
\* call; a record whose artifact directories are both non-empty at that
\* call is not in the unvisited list after it.
C15_ReentersOnlyByReset ==
    [][ (Loaded /\ collection' # <<>>) =>
            \A r \in ReplayIds :
                /\ ( /\ r \notin Range(Unvisited)
                     /\ r \in Range(collection'[1].replays_unvisited) ) =>
                       /\ last'.op \in {"reset_unvisited", "ReplayCollection"}
                       /\ ~BothNonEmpty(dirs', collection'[1], r)
                /\ ( /\ last'.op \in {"reset_unvisited", "ReplayCollection"}
                     /\ BothNonEmpty(dirs', collection'[1], r) ) =>
                       r \notin Range(collection'[1].replays_unvisited)
      ]_vars

\* C15 witness: after a reset_unvisited a popped record whose capture did
\* not happen is unvisited again while a captured record is not.
C15_Witness ==
    /\ Loaded
    /\ last.op = "reset_unvisited"
    /\ \E r \in Range(Unvisited) : dirs["frames"][r] = "empty"
    /\ \E r \in Range(Replays) :
           BothNonEmpty(dirs, collection[1], r) /\ r \notin Range(Unvisited)

\* C16: a change of the artifact directories from outside changes neither
\* the unvisited list nor count_unvisited, and a record that became
\* collected on disk is still popped when it is at the head of the list.
C16_ExternalChangeKeepsUnvisited ==
    [][ /\ (Loaded /\ last'.op = "external") =>
              /\ collection' = collection
              /\ count_unvisited(collection'[1]) =
                     count_unvisited(collection[1])
        /\ ( /\ Loaded
             /\ last'.op = "pop_unvisited"
             /\ Unvisited # <<>>
             /\ BothNonEmpty(dirs, collection[1], Head(Unvisited)) ) =>
               last'.val = <<Head(Unvisited)>>
      ]_vars

\* C16 witness: a record that is collected on disk has just been popped.
C16_Witness ==
    /\ Loaded
    /\ last.op = "pop_unvisited"
    /\ last.val # <<>>
    /\ BothNonEmpty(dirs, collection[1], last.val[1])

\* C17: a load_next_replay that pops a record whose file is in the
\* collection directory copies that file into the replays folder under the
\* same name, and no load_next_replay changes the files of the collection
\* directory.
C17_CopyKeepsSource ==
    [][ /\ ( /\ Loaded
             /\ last'.op = "load_next_replay"
             /\ Unvisited # <<>>
             /\ Head(Unvisited) \in collectionDir ) =>
               /\ last'.copied = <<Head(Unvisited)>>
               /\ Head(Unvisited) \in replaysDir'
               /\ Head(Unvisited) \in collectionDir'
        /\ last'.op = "load_next_replay" => collectionDir' = collectionDir
      ]_vars

\* C17 witness: a file has been copied and is in both directories.
C17_Witness ==
    /\ last.op = "load_next_replay"
    /\ last.copied # <<>>
    /\ last.copied[1] \in replaysDir
    /\ last.copied[1] \in collectionDir

\* C19: while the files of the collection directory are those listed at
\* construction, reset_unvisited leaves the object as a fresh
\* ReplayCollection over the same paths would be, whatever was popped
\* before; a second reset_unvisited right after the first changes nothing
\* and returns the same count.
C19_ResetAsFresh ==
    [][ /\ ( /\ last'.op = "reset_unvisited"
             /\ collection'[1].replays =
                    listdir_replays_only(collectionDir') ) =>
               /\ collection'[1] =
                      ReplayCollection(dirs', collectionDir',
                                       collection'[1].frames_root_path,
                                       collection'[1].labels_root_path)
               /\ last'.val = <<Len(collection'[1].replays_unvisited)>>
        /\ (last.op = "reset_unvisited" /\ last'.op = "reset_unvisited") =>
               /\ collection' = collection
               /\ last'.val = last.val
      ]_vars

\* C19 witness: a reset_unvisited has put popped records back.
C19_Witness ==
    /\ Loaded
    /\ last.op = "reset_unvisited"
    /\ Replays = listdir_replays_only(collectionDir)
    /\ Len(Unvisited) = NumReplays

====
